---- MODULE Spec2Model ----
(***************************************************************************)
(* Model of self-sup_pre-train.py (DSGPM self-supervised pre-training):    *)
(* main(), Trainer.__init__, Trainer.train and Trainer.eval.               *)
(*                                                                         *)
(* Tensors are abstracted: the learnable parameters of the encoder         *)
(* (self.model) and of the linear head (self.atom_type_classifier) are     *)
(* version numbers, the number of optimizer steps applied to them.  A      *)
(* per-batch macro precision is one of 0, 1/2, 1, a per-batch loss one of  *)
(* 0, 1; both are chosen nondeterministically for every batch.             *)
(* The filesystem is the run directory, its checkpoint files, the config   *)
(* snapshot, the tensorboard directory and the scalars written to it (a    *)
(* scalar is recorded by its tag and step; the value passed is the meter's *)
(* average at that moment).  get_run_name yields a name unique to the run, *)
(* so neither directory exists before the run.                             *)
(***************************************************************************)
EXTENDS Integers, Sequences, FiniteSets, TLC

\* ---- bounds of the model ------------------------------------------------
MaxEpoch == 2
MaxBatch == 2

\* ---- values --------------------------------------------------------------
Rat(n, d) == [num |-> n, den |-> d]

\* per-batch losses, and per-batch macro precisions 0, 1/2 and 1
LossValues == {Rat(0, 1), Rat(1, 1)}

AccValues == {Rat(0, 2), Rat(1, 2), Rat(2, 2)}

RatAdd(a, b) ==
    IF a.den = b.den THEN Rat(a.num + b.num, a.den)
    ELSE Rat(a.num * b.den + b.num * a.den, a.den * b.den)

RatGT(a, b) == a.num * b.den > b.num * a.den

RatEQ(a, b) == a.num * b.den = b.num * a.den

\* utils.stat.AverageMeter: a running mean (sum, count, avg = sum / count,
\* avg = 0 before the first update).
MeterNew == [sum |-> Rat(0, 1), count |-> 0]

MeterUpdate(m, v) == [sum |-> RatAdd(m.sum, v), count |-> m.count + 1]

MeterAvg(m) ==
    IF m.count = 0 THEN Rat(0, 1) ELSE Rat(m.sum.num, m.sum.den * m.count)

\* ---- parameters and checkpoints -----------------------------------------
InitialParams == [enc |-> 0, head |-> 0]

\* optim.Adam over itertools.chain(model.parameters(),
\* atom_type_classifier.parameters()): one step updates both groups.
OptimizerStep(p) == [enc |-> p.enc + 1, head |-> p.head + 1]

\* self.model.state_dict(): self.model is always a DSGPM instance, so the
\* isinstance branch selects the encoder's own state_dict.
StateDict_WithHead(p) == {<<"enc", p.enc>>, <<"head", p.head>>}

StateDict(p) == {<<"enc", p.enc>>}

NoFile == [exists |-> FALSE, data |-> {}]

FileOf(sd) == [exists |-> TRUE, data |-> sd]

\* line 144: accuracy_meter.avg > self.best_acc
IsBest_Ge(avg, best) == RatGT(avg, best) \/ RatEQ(avg, best)

IsBest(avg, best) == RatGT(avg, best)

\* the order of the operations on one training batch (lines 92-99)
TrainOps == <<"zero_grad", "encoder_forward", "classifier_forward",
              "loss", "backward", "optimizer_step">>

VARIABLES
    args,            \* the parsed arguments (read-only after arg_parse)
    nTrain, nVal,    \* len(self.train_loader), len(self.val_loader)
    pc,              \* position of the control thread
    e,               \* loop variable of main's for loop
    i,               \* index of the current batch
    bpc,             \* position inside the current training batch
    params,          \* learnable parameters (versions)
    grad,            \* state of the gradient buffers
    loss,            \* the current batch's loss
    loss_meter, accuracy_meter,
    best_acc,        \* self.best_acc
    ckpt_dir,        \* self.ckpt_dir: "unset" or "set"
    writer,          \* self.writer: "unset" or "set"
    fs,              \* filesystem
    err,             \* exception that ended the run, or "none"
    fs0,             \* history: filesystem before the run
    callLog,         \* history: train/eval calls made by main
    opLog,           \* history: operations applied to the current batch
    lossVals, accVals, \* history: per-batch values of the current call
    valHist,         \* history: validation average of each finished epoch
    bestCopies       \* history: number of shutil.copyfile calls

vars == <<args, nTrain, nVal, pc, e, i, bpc, params, grad, loss, loss_meter,
          accuracy_meter, best_acc, ckpt_dir, writer, fs, err, fs0, callLog,
          opLog, lossVals, accVals, valHist, bestCopies>>

ctrl == <<args, nTrain, nVal, fs0>>

Epochs == 1..MaxEpoch

EmptyFs ==
    [ckptDir |-> FALSE, config |-> FALSE,
     epochFile |-> [k \in Epochs |-> NoFile], best |-> NoFile,
     tbDir |-> FALSE, scalars |-> {}]

Init ==
    /\ args \in [debug : BOOLEAN, tb_log : BOOLEAN, ckpt : BOOLEAN,
                 split_index_folder : BOOLEAN, epoch : 0..MaxEpoch]
    /\ nTrain \in 0..MaxBatch
    /\ nVal \in 0..MaxBatch
    /\ fs = EmptyFs
    /\ fs0 = fs
    /\ pc = "main"
    /\ e = 0
    /\ i = 0
    /\ bpc = "idle"
    /\ params = InitialParams
    /\ grad = "unset"
    /\ loss = Rat(0, 1)
    /\ loss_meter = MeterNew
    /\ accuracy_meter = MeterNew
    /\ best_acc = Rat(-1, 1)
    /\ ckpt_dir = "unset"
    /\ writer = "unset"
    /\ err = "none"
    /\ callLog = <<>>
    /\ opLog = <<>>
    /\ lossVals = <<>>
    /\ accVals = <<>>
    /\ valHist = <<>>
    /\ bestCopies = 0


\* an exception propagates out of main: the run ends where it is
Raise(kind, fsNow, best) ==
    /\ err' = kind
    /\ pc' = "failed"
    /\ fs' = fsNow
    /\ best_acc' = best

\* ---- main(), lines 156-163 ----------------------------------------------
\* arg_parse, then `assert args.ckpt is not None`
MainStart ==
    /\ pc = "main"
    /\ IF args.ckpt
         THEN pc' = "init" /\ err' = err
         ELSE pc' = "failed" /\ err' = "AssertionError"
    /\ UNCHANGED <<ctrl, e, i, bpc, params, grad, loss, loss_meter,
                   accuracy_meter, best_acc, ckpt_dir, writer, fs, callLog,
                   opLog, lossVals, accVals, valHist, bestCopies>>

\* ---- Trainer.__init__, lines 31-80 --------------------------------------
\* line 34: the run directory and the config snapshot are made unless debug
InitMakesRun_Always == TRUE

InitMakesRun == ~args.debug

\* line 43: the tensorboard directory and writer, inside the line-34 branch
InitMakesWriter == InitMakesRun /\ args.tb_log

\* lines 35-48: filesystem after the bookkeeping part of __init__
InitFs ==
    LET f1 == IF InitMakesRun
                THEN [fs EXCEPT !.ckptDir = TRUE, !.config = TRUE]
                ELSE fs
    IN IF InitMakesWriter THEN [f1 EXCEPT !.tbDir = TRUE] ELSE f1

TrainerInit ==
    /\ pc = "init"
    /\ ckpt_dir' = IF InitMakesRun THEN "set" ELSE ckpt_dir
    /\ writer' = IF InitMakesWriter THEN "set" ELSE writer
    /\ fs' = InitFs
    /\ IF args.split_index_folder
         THEN /\ pc' = "loop"
              /\ err' = err
              /\ params' = InitialParams
              /\ best_acc' = Rat(-1, 1)
         ELSE \* line 50: assert args.split_index_folder is not None
              /\ pc' = "failed"
              /\ err' = "AssertionError"
              /\ UNCHANGED <<params, best_acc>>
    /\ UNCHANGED <<ctrl, e, i, bpc, grad, loss, loss_meter, accuracy_meter,
                   callLog, opLog, lossVals, accVals, valHist, bestCopies>>

\* ---- main's loop, lines 165-168 -----------------------------------------
\* for e in range(1, args.epoch + 1)
LoopHasNext_OffByOne == e + 1 < args.epoch

LoopHasNext == e < args.epoch

LoopNext ==
    /\ pc = "loop"
    /\ IF LoopHasNext
         THEN e' = e + 1 /\ pc' = "train_begin"
         ELSE e' = e /\ pc' = "done"
    /\ UNCHANGED <<ctrl, i, bpc, params, grad, loss, loss_meter,
                   accuracy_meter, best_acc, ckpt_dir, writer, fs, err,
                   callLog, opLog, lossVals, accVals, valHist, bestCopies>>

\* ---- Trainer.train, lines 82-116 ----------------------------------------
\* lines 84-85: loss_meter = AverageMeter(); accuracy_meter = AverageMeter()
TrainMeterInit(old) == MeterNew

\* lines 83-89
TrainBegin ==
    /\ pc = "train_begin"
    /\ loss_meter' = TrainMeterInit(loss_meter)
    /\ accuracy_meter' = TrainMeterInit(accuracy_meter)
    /\ i' = 0
    /\ IF nTrain > 0
         THEN pc' = "train_batch" /\ bpc' = "zero_grad"
         ELSE pc' = "train_end" /\ bpc' = "idle"
    /\ callLog' = Append(callLog, <<"train", e>>)
    /\ opLog' = <<>>
    /\ lossVals' = <<>>
    /\ accVals' = <<>>
    /\ UNCHANGED <<ctrl, e, params, grad, loss, best_acc, ckpt_dir, writer,
                   fs, err, valHist, bestCopies>>

\* lines 92-93: data.to(device); self.optimizer.zero_grad()
TrainZeroGrad ==
    /\ pc = "train_batch" /\ bpc = "zero_grad"
    /\ grad' = "zero"
    /\ opLog' = <<"zero_grad">>
    /\ bpc' = "encoder_forward"
    /\ UNCHANGED <<ctrl, pc, e, i, params, loss, loss_meter, accuracy_meter,
                   best_acc, ckpt_dir, writer, fs, err, callLog, lossVals,
                   accVals, valHist, bestCopies>>

\* line 95: fg_embed = self.model(data)
TrainEncoderForward ==
    /\ pc = "train_batch" /\ bpc = "encoder_forward"
    /\ opLog' = Append(opLog, "encoder_forward")
    /\ bpc' = "classifier_forward"
    /\ UNCHANGED <<ctrl, pc, e, i, params, grad, loss, loss_meter,
                   accuracy_meter, best_acc, ckpt_dir, writer, fs, err,
                   callLog, lossVals, accVals, valHist, bestCopies>>

\* line 96: pred = self.atom_type_classifier(fg_embed[data.masked_atom_index])
TrainClassifierForward ==
    /\ pc = "train_batch" /\ bpc = "classifier_forward"
    /\ opLog' = Append(opLog, "classifier_forward")
    /\ bpc' = "loss"
    /\ UNCHANGED <<ctrl, pc, e, i, params, grad, loss, loss_meter,
                   accuracy_meter, best_acc, ckpt_dir, writer, fs, err,
                   callLog, lossVals, accVals, valHist, bestCopies>>

\* line 97: loss = self.criterion(pred, data.masked_atom_type)
TrainLoss ==
    /\ pc = "train_batch" /\ bpc = "loss"
    /\ \E l \in LossValues : loss' = l
    /\ opLog' = Append(opLog, "loss")
    /\ bpc' = "backward"
    /\ UNCHANGED <<ctrl, pc, e, i, params, grad, loss_meter, accuracy_meter,
                   best_acc, ckpt_dir, writer, fs, err, callLog, lossVals,
                   accVals, valHist, bestCopies>>

\* line 98: loss.backward()
TrainBackward ==
    /\ pc = "train_batch" /\ bpc = "backward"
    /\ grad' = "computed"
    /\ opLog' = Append(opLog, "backward")
    /\ bpc' = "optimizer_step"
    /\ UNCHANGED <<ctrl, pc, e, i, params, loss, loss_meter, accuracy_meter,
                   best_acc, ckpt_dir, writer, fs, err, callLog, lossVals,
                   accVals, valHist, bestCopies>>

\* line 99: self.optimizer.step()
TrainStepParams_Twice(p) == OptimizerStep(OptimizerStep(p))

TrainStepParams(p) == OptimizerStep(p)

TrainOptimizerStep ==
    /\ pc = "train_batch" /\ bpc = "optimizer_step"
    /\ params' = TrainStepParams(params)
    /\ opLog' = Append(opLog, "optimizer_step")
    /\ bpc' = "meters"
    /\ UNCHANGED <<ctrl, pc, e, i, grad, loss, loss_meter, accuracy_meter,
                   best_acc, ckpt_dir, writer, fs, err, callLog, lossVals,
                   accVals, valHist, bestCopies>>

\* lines 101-108: both meters are updated, then the loop takes the next batch
TrainMeters ==
    /\ pc = "train_batch" /\ bpc = "meters"
    /\ \E a \in AccValues :
          /\ accuracy_meter' = MeterUpdate(accuracy_meter, a)
          /\ accVals' = Append(accVals, a)
    /\ loss_meter' = MeterUpdate(loss_meter, loss)
    /\ lossVals' = Append(lossVals, loss)
    /\ i' = i + 1
    /\ IF i + 1 < nTrain
         THEN pc' = pc /\ bpc' = "zero_grad"
         ELSE pc' = "train_end" /\ bpc' = "idle"
    /\ UNCHANGED <<ctrl, e, params, grad, loss, best_acc, ckpt_dir, writer,
                   fs, err, callLog, opLog, valHist, bestCopies>>

\* line 110: if not self.args.debug and self.args.tb_log
TrainLogs_TbOnly == args.tb_log

TrainLogs == ~args.debug /\ args.tb_log

\* line 114: if not self.args.debug
TrainSaves == ~args.debug

\* lines 110-116
TrainEnd ==
    /\ pc = "train_end"
    /\ LET fs1 == IF TrainLogs
                    THEN [fs EXCEPT !.scalars = @ \cup
                            {<<"loss", e>>, <<"train_accuracy", e>>}]
                    ELSE fs
           fs2 == IF TrainSaves
                    THEN [fs1 EXCEPT !.epochFile[e] = FileOf(StateDict(params))]
                    ELSE fs1
       IN IF TrainLogs /\ writer = "unset"
            THEN Raise("AttributeError", fs, best_acc)
            ELSE IF TrainSaves /\ ckpt_dir = "unset"
                   THEN Raise("AttributeError", fs1, best_acc)
                   ELSE /\ fs' = fs2
                        /\ pc' = "eval_begin"
                        /\ UNCHANGED <<err, best_acc>>
    /\ UNCHANGED <<ctrl, e, i, bpc, params, grad, loss, loss_meter,
                   accuracy_meter, ckpt_dir, writer, callLog, opLog,
                   lossVals, accVals, valHist, bestCopies>>

\* ---- Trainer.eval, lines 118-153 ----------------------------------------
\* line 121: accuracy_meter = AverageMeter()
EvalMeterInit_Stale(old) == old

EvalMeterInit(old) == MeterNew

\* lines 119-124
EvalBegin ==
    /\ pc = "eval_begin"
    /\ accuracy_meter' = EvalMeterInit(accuracy_meter)
    /\ i' = 0
    /\ pc' = IF nVal > 0 THEN "eval_batch" ELSE "eval_end"
    /\ callLog' = Append(callLog, <<"eval", e>>)
    /\ accVals' = <<>>
    /\ UNCHANGED <<ctrl, e, bpc, params, grad, loss, loss_meter, best_acc,
                   ckpt_dir, writer, fs, err, opLog, lossVals, valHist,
                   bestCopies>>

\* lines 126-136: forward passes and the metric; no backward, no step
EvalBatchParams_Steps(p) == OptimizerStep(p)

EvalBatchParams(p) == p

\* lines 126-139
EvalBatch ==
    /\ pc = "eval_batch"
    /\ params' = EvalBatchParams(params)
    /\ \E a \in AccValues :
          /\ accuracy_meter' = MeterUpdate(accuracy_meter, a)
          /\ accVals' = Append(accVals, a)
    /\ i' = i + 1
    /\ pc' = IF i + 1 < nVal THEN pc ELSE "eval_end"
    /\ UNCHANGED <<ctrl, e, bpc, grad, loss, loss_meter, best_acc, ckpt_dir,
                   writer, fs, err, callLog, opLog, lossVals, valHist,
                   bestCopies>>

\* line 141: if not self.args.debug and self.args.tb_log
EvalLogs == ~args.debug /\ args.tb_log

\* line 148: if not self.args.debug
EvalSaves == ~args.debug

\* lines 141-153
EvalEnd ==
    /\ pc = "eval_end"
    /\ LET avg == MeterAvg(accuracy_meter)
           is_best == IsBest(avg, best_acc)
           best1 == IF is_best THEN avg ELSE best_acc
           fs1 == IF EvalLogs
                    THEN [fs EXCEPT !.scalars = @ \cup {<<"val_accuracy", e>>}]
                    ELSE fs
           ckpt == FileOf(StateDict(params))
           fs2 == IF EvalSaves
                    THEN [fs1 EXCEPT !.epochFile[e] = ckpt,
                                     !.best = IF is_best THEN ckpt ELSE @]
                    ELSE fs1
       IN IF EvalLogs /\ writer = "unset"
            THEN Raise("AttributeError", fs, best_acc) /\ UNCHANGED <<valHist, bestCopies>>
            ELSE IF EvalSaves /\ ckpt_dir = "unset"
                   THEN Raise("AttributeError", fs1, best1) /\ UNCHANGED <<valHist, bestCopies>>
                   ELSE /\ fs' = fs2
                        /\ best_acc' = best1
                        /\ pc' = "loop"
                        /\ err' = err
                        /\ valHist' = Append(valHist, avg)
                        /\ bestCopies' = IF EvalSaves /\ is_best
                                           THEN bestCopies + 1 ELSE bestCopies
    /\ UNCHANGED <<ctrl, e, i, bpc, params, grad, loss, loss_meter,
                   accuracy_meter, ckpt_dir, writer, callLog, opLog,
                   lossVals, accVals>>

Next ==
    \/ MainStart
    \/ TrainerInit
    \/ LoopNext
    \/ TrainBegin
    \/ TrainZeroGrad
    \/ TrainEncoderForward
    \/ TrainClassifierForward
    \/ TrainLoss
    \/ TrainBackward
    \/ TrainOptimizerStep
    \/ TrainMeters
    \/ TrainEnd
    \/ EvalBegin
    \/ EvalBatch
    \/ EvalEnd

Spec == Init /\ [][Next]_vars

TypeOK ==
    /\ pc \in {"main", "init", "loop", "train_begin", "train_batch",
               "train_end", "eval_begin", "eval_batch", "eval_end", "done",
               "failed"}
    /\ e \in 0..MaxEpoch
    /\ err \in {"none", "AssertionError", "AttributeError"}


\* the control thread always takes its next step (single blocking thread)
FairSpec == Spec /\ WF_vars(Next)

\* ---- helpers of the properties ------------------------------------------
RECURSIVE NumSum(_)
NumSum(s) == IF s = <<>> THEN 0 ELSE Head(s).num + NumSum(Tail(s))

KeysOf(file) == {kv[1] : kv \in file.data}

EvalPcs == {"eval_begin", "eval_batch", "eval_end"}

TrainPcs == {"train_begin", "train_batch", "train_end"}

Ran == pc \in TrainPcs \cup EvalPcs \cup {"loop", "done"}

\* the earliest epoch whose validation average is the maximum of the run
EarliestMaxEpoch ==
    CHOOSE k \in 1..Len(valHist) :
        /\ \A j \in 1..Len(valHist) : ~RatGT(valHist[j], valHist[k])
        /\ \A j \in 1..(k - 1) : RatGT(valHist[k], valHist[j])

\* the calls main has made so far when it has made n of them
ExpectedCall(j) == <<IF j % 2 = 1 THEN "train" ELSE "eval", (j + 1) \div 2>>

\* C1: best_acc changes, and best.pth is copied, only in a step of
\* Trainer.eval whose epoch average strictly exceeds the prior best_acc (and
\* best_acc then becomes that average); with an equal or lower average
\* best_acc and best.pth stay as they are.
C1_BestOnlyOnStrictImprovement ==
    [][(best_acc' # best_acc \/ bestCopies' # bestCopies \/ fs'.best # fs.best)
         => /\ pc = "eval_end"
            /\ RatGT(MeterAvg(accuracy_meter), best_acc)
            /\ best_acc' = MeterAvg(accuracy_meter)]_vars

C1_Witness ==
    /\ pc = "loop" /\ ~args.debug
    /\ Len(valHist) = 2 /\ RatEQ(valHist[1], valHist[2])
    /\ bestCopies = 1 /\ RatEQ(best_acc, valHist[1])

\* C2: after a finished run of N >= 1 epochs with debug off the run
\* directory holds exactly the epoch checkpoints 1..N and a best.pth equal to
\* the checkpoint of the earliest epoch that attained the maximal validation
\* average (a later tie does not replace it).
C2_CheckpointsAfterRun ==
    (pc = "done" /\ ~args.debug /\ args.epoch >= 1) =>
        /\ \A k \in Epochs : fs.epochFile[k].exists <=> k <= args.epoch
        /\ Len(valHist) = args.epoch
        /\ fs.best.exists
        /\ fs.best = fs.epochFile[EarliestMaxEpoch]

C2_Witness ==
    /\ pc = "done" /\ ~args.debug /\ args.epoch = 2 /\ nTrain > 0
    /\ RatEQ(valHist[1], valHist[2])
    /\ fs.best = fs.epochFile[1] /\ fs.best # fs.epochFile[2]

\* C3: with debug on, the filesystem is at every point of the run what it
\* was before the run (no directory, checkpoint, config snapshot or scalar),
\* whatever the epoch count and tb_log.
C3_DebugWritesNothing ==
    args.debug => (fs = fs0 /\ bestCopies = 0)

C3_Witness ==
    /\ pc = "done" /\ args.debug /\ args.tb_log
    /\ args.epoch = MaxEpoch /\ nTrain > 0 /\ nVal > 0

\* C4: when a required path argument is missing the run fails with an
\* assertion before any resource is made: no run directory, no config
\* snapshot, no logging directory or writer.
C4_AssertBeforeAllocation ==
    err = "AssertionError" =>
        (fs = fs0 /\ ckpt_dir = "unset" /\ writer = "unset")

\* C5 (as claimed): every checkpoint file holds all learnable parameters,
\* the encoder's and the classifier head's.
C5_CheckpointHasAllParams ==
    /\ \A k \in Epochs :
          fs.epochFile[k].exists => KeysOf(fs.epochFile[k]) = {"enc", "head"}
    /\ fs.best.exists => KeysOf(fs.best) = {"enc", "head"}

\* C5 (amended): every checkpoint file written at epoch k holds exactly the
\* encoder's parameters as they are after the training of epoch k, and
\* best.pth is the checkpoint of one of the epochs run; the classifier
\* head's parameters are in no checkpoint.
C5_CheckpointHasEncoderOnly ==
    /\ \A k \in Epochs :
          fs.epochFile[k].exists =>
              fs.epochFile[k].data = {<<"enc", k * nTrain>>}
    /\ fs.best.exists =>
          \E k \in 1..e : fs.epochFile[k].exists /\ fs.best = fs.epochFile[k]

C5_Witness ==
    /\ fs.best.exists /\ params.head > 0
    /\ fs.epochFile[1].data = {<<"enc", params.enc>>}

\* C6: main runs train(1), eval(1), train(2), eval(2), ... in this order,
\* starting at epoch 1 from freshly built parameters, each epoch once; a run
\* that ended normally made exactly N train calls and N eval calls, and
\* every run ends.
C6_LoopInv ==
    /\ \A j \in 1..Len(callLog) : callLog[j] = ExpectedCall(j)
    /\ e <= args.epoch
    /\ pc \in TrainPcs => Len(callLog) = 2 * e - (IF pc = "train_begin" THEN 2 ELSE 1)
    /\ pc \in EvalPcs => Len(callLog) = 2 * e - (IF pc = "eval_begin" THEN 1 ELSE 0)
    /\ pc = "loop" => Len(callLog) = 2 * e
    /\ (pc = "train_begin" /\ e = 1) => params = InitialParams
    /\ pc = "done" => (e = args.epoch /\ Len(callLog) = 2 * args.epoch)

\* C6: the loop invariant above holds throughout, and the run ends (done,
\* or failed by an assertion) once the control thread keeps stepping.
C6_LinearLoop == [](C6_LoopInv) /\ <>(pc \in {"done", "failed"})

C6_Witness ==
    /\ pc = "done" /\ args.epoch = MaxEpoch
    /\ Len(callLog) = 2 * MaxEpoch /\ callLog[2 * MaxEpoch] = <<"eval", MaxEpoch>>

\* C7: no step of Trainer.eval (nor of the loop around it) changes a
\* learnable parameter, and the epoch checkpoint that eval(e) rewrites has
\* the content train(e) wrote.
C7_EvalKeepsParams ==
    [][/\ pc \in EvalPcs \cup {"train_end", "loop", "train_begin"}
            => params' = params
       /\ (pc = "eval_end" /\ pc' = "loop" /\ ~args.debug)
            => (fs.epochFile[e].exists /\ fs'.epochFile[e] = fs.epochFile[e])]_vars

C7_Witness ==
    /\ pc = "loop" /\ e >= 1 /\ ~args.debug /\ nVal > 0 /\ nTrain > 0
    /\ fs.epochFile[e] = FileOf(StateDict(params))

\* C8: a training batch goes through zero_grad, encoder forward, classifier
\* forward, loss, backward, optimizer step in this order, with one optimizer
\* step per batch, batches one after another: N epochs of B batches apply
\* N*B steps, and the checkpoint of epoch k holds the parameters after k*B
\* steps.
C8_TrainStepOrder ==
    /\ Len(opLog) <= Len(TrainOps)
    /\ \A j \in 1..Len(opLog) : opLog[j] = TrainOps[j]
    /\ (pc = "train_batch" /\ bpc # "zero_grad") =>
          (Len(opLog) < Len(TrainOps) => bpc = TrainOps[Len(opLog) + 1])
    /\ (bpc = "meters" \/ (pc = "train_end" /\ nTrain > 0)) => opLog = TrainOps
    /\ bpc = "optimizer_step" => grad = "computed"
    /\ params.enc = params.head
    /\ pc = "train_batch" =>
          params.enc = (e - 1) * nTrain + i + (IF bpc = "meters" THEN 1 ELSE 0)
    /\ pc = "train_end" => (i = nTrain /\ params.enc = e * nTrain)
    /\ pc = "done" => params.enc = args.epoch * nTrain
    /\ \A k \in Epochs :
          fs.epochFile[k].exists => <<"enc", k * nTrain>> \in fs.epochFile[k].data

C8_Witness ==
    /\ pc = "done" /\ ~args.debug /\ args.epoch = MaxEpoch /\ nTrain = MaxBatch
    /\ params.enc = MaxEpoch * MaxBatch /\ fs.epochFile[MaxEpoch].exists

\* C9: the meters of a train or eval call hold exactly the per-batch values
\* of this call, one update per batch, so the average read at the end of the
\* call is the arithmetic mean of this call's batches alone.
C9_MetersPerEpoch ==
    /\ pc \in {"train_batch", "train_end"} =>
          /\ loss_meter.count = Len(lossVals)
          /\ loss_meter.sum.num = NumSum(lossVals)
          /\ accuracy_meter.count = Len(accVals)
          /\ accuracy_meter.sum.num = NumSum(accVals)
          /\ Len(accVals) = Len(lossVals)
          /\ Len(accVals) = i
    /\ pc \in {"eval_batch", "eval_end"} =>
          /\ accuracy_meter.count = Len(accVals)
          /\ accuracy_meter.sum.num = NumSum(accVals)
          /\ Len(accVals) = i
    /\ (pc = "train_end" /\ nTrain > 0) =>
          /\ Len(accVals) = nTrain
          /\ RatEQ(MeterAvg(loss_meter), Rat(NumSum(lossVals), Head(lossVals).den * nTrain))
          /\ RatEQ(MeterAvg(accuracy_meter), Rat(NumSum(accVals), Head(accVals).den * nTrain))
    /\ (pc = "eval_end" /\ nVal > 0) =>
          /\ Len(accVals) = nVal
          /\ RatEQ(MeterAvg(accuracy_meter), Rat(NumSum(accVals), Head(accVals).den * nVal))

C9_Witness ==
    /\ pc = "eval_end" /\ e = 2 /\ nVal = MaxBatch /\ nTrain > 0
    /\ accuracy_meter.count = MaxBatch
    /\ RatGT(valHist[1], MeterAvg(accuracy_meter))

\* C10: no step of train or eval reads self.ckpt_dir or self.writer unset:
\* ckpt_dir is set exactly when debug is off, the writer exactly when debug
\* is off and tb_log is on, and files and scalars are written only then.
C10_AttributesSetWhenUsed ==
    /\ err # "AttributeError"
    /\ Ran => /\ (ckpt_dir = "set" <=> ~args.debug)
              /\ (writer = "set" <=> (~args.debug /\ args.tb_log))
    /\ fs.scalars # {} => writer = "set"
    /\ (fs.best.exists \/ \E k \in Epochs : fs.epochFile[k].exists)
          => ckpt_dir = "set"

C10_Witness ==
    /\ pc = "done" /\ ~args.debug /\ ~args.tb_log /\ args.epoch >= 1
    /\ writer = "unset" /\ ckpt_dir = "set" /\ fs.epochFile[1].exists
    /\ fs.scalars = {}

====
